---- MODULE Spec2Model ----
(***************************************************************************)
(* A model of samsolver (src/main.py): the clue tokenizer, the expression  *)
(* compiler, the constraint store with its solver oracle, and the          *)
(* read / compile / add / solve / deduce / print loop of main().           *)
(*                                                                         *)
(* Text is a sequence of one-character strings.  A cpmpy expression is a   *)
(* record holding its syntax tree; the oracle decides a list of them by    *)
(* enumerating the assignments of the boolean variables they name          *)
(* (cpmpy identifies a variable by its name).                              *)
(*                                                                         *)
(* Every step of a session is one pass of the while loop of main() on one *)
(* line of input.  The user's Ctrl-C (KeyboardInterrupt, lines 224-225) is *)
(* not part of the model, and the lines drawn keep to operands that are    *)
(* letter clusters or numbers.                                             *)
(*                                                                         *)
(* Spec follows a session on a deck of short lines.  SpecExamples follows  *)
(* a session on the lines of each worked example of the documentation,     *)
(* and applies tokenize, connected_expr, parity_expr and use_op on their   *)
(* own to inputs drawn from bounded sets.                                  *)
(***************************************************************************)
EXTENDS Integers, Sequences, FiniteSets, TLC

(***************************************************************************)
(* Bounds of the model.                                                    *)
(***************************************************************************)
\* the number of clues a session conjoins into the store
MaxClues == 2

\* the number of clues a session on the worked examples conjoins
MaxExampleClues == 3

\* the number of suspects, and the length of the longest cluster, that
\* connected_expr is applied to
MaxSuspects == 4

\* the number of suspects, and the length of the longest cluster, that
\* parity_expr is applied to
MaxParity == 3

\* the length of the longest text tokenize is applied to, the lines of the
\* sessions apart
MaxText == 4

(***************************************************************************)
(* Characters: str.isalpha, str.isdigit, str.isspace, str.lower,           *)
(* str.upper and str.strip on the ASCII characters the model draws from.   *)
(***************************************************************************)
LowerLetters ==
  << "a", "b", "c", "d", "e", "f", "g", "h", "i", "j", "k", "l", "m",
     "n", "o", "p", "q", "r", "s", "t", "u", "v", "w", "x", "y", "z" >>

UpperLetters ==
  << "A", "B", "C", "D", "E", "F", "G", "H", "I", "J", "K", "L", "M",
     "N", "O", "P", "Q", "R", "S", "T", "U", "V", "W", "X", "Y", "Z" >>

DigitChars == << "0", "1", "2", "3", "4", "5", "6", "7", "8", "9" >>

Range(s) == { s[i] : i \in DOMAIN s }

IndexOf(s, c) == CHOOSE i \in DOMAIN s : s[i] = c

Letters == Range(LowerLetters) \cup Range(UpperLetters)

Digits == Range(DigitChars)

IsAlpha(c) == c \in Letters

IsDigit(c) == c \in Digits

IsSpace(c) == c = " "

LowerChar(c) ==
  IF c \in Range(UpperLetters) THEN LowerLetters[IndexOf(UpperLetters, c)] ELSE c

UpperChar(c) ==
  IF c \in Range(LowerLetters) THEN UpperLetters[IndexOf(LowerLetters, c)] ELSE c

Lower(text) == [ i \in DOMAIN text |-> LowerChar(text[i]) ]

RECURSIVE LStrip(_)
LStrip(text) ==
  IF text # << >> /\ IsSpace(Head(text)) THEN LStrip(Tail(text)) ELSE text

RECURSIVE RStrip(_)
RStrip(text) ==
  IF text # << >> /\ IsSpace(text[Len(text)])
  THEN RStrip(SubSeq(text, 1, Len(text) - 1))
  ELSE text

Strip(text) == RStrip(LStrip(text))

(***************************************************************************)
(* tokenize: one pass over the text; a token is the longest run of         *)
(* characters of the class of its first character.  The atoms are the      *)
(* characters, '$' excluded, of the first token of the letter class.       *)
(***************************************************************************)
\* the three regular expressions of tokenize, as character classes
InWordClass(c) == IsAlpha(c) \/ c = "$"

InNumberClass(c) == IsDigit(c)

InSymbolClass(c) == ~ (IsAlpha(c) \/ c = "$" \/ IsDigit(c) \/ IsSpace(c))

InClass(class, c) ==
  CASE class = "word"   -> InWordClass(c)
    [] class = "number" -> InNumberClass(c)
    [] OTHER            -> InSymbolClass(c)

\* re.match(token_matcher, text[i:])[0]: the longest prefix within the class
RECURSIVE MatchLen(_, _, _)
MatchLen(text, i, class) ==
  IF i <= Len(text) /\ InClass(class, text[i])
  THEN 1 + MatchLen(text, i + 1, class)
  ELSE 0

TokenMatcher(first_char) ==
  IF IsAlpha(first_char) \/ first_char = "$" THEN "word"
  ELSE IF IsDigit(first_char) THEN "number"
  ELSE "symbol"

\* a slip in lines 30-33: already_extracted_atoms is not consulted and
\* every letter cluster adds its letters
RECURSIVE TokenizeFromEveryWord(_, _, _, _, _)
TokenizeFromEveryWord(text, i, tokens, atoms, already_extracted_atoms) ==
  IF i > Len(text) THEN [ tokens |-> tokens, atoms |-> atoms ]
  ELSE IF IsSpace(text[i])
  THEN TokenizeFromEveryWord(text, i + 1, tokens, atoms, already_extracted_atoms)
  ELSE
    LET class == TokenMatcher(text[i])
        n == MatchLen(text, i, class)
        token == SubSeq(text, i, i + n - 1)
    IN  TokenizeFromEveryWord(text, i + n, Append(tokens, token),
                              IF class = "word" THEN atoms \cup (Range(token) \ {"$"})
                              ELSE atoms,
                              already_extracted_atoms)

RECURSIVE TokenizeFrom(_, _, _, _, _)
TokenizeFrom(text, i, tokens, atoms, already_extracted_atoms) ==
  IF i > Len(text) THEN [ tokens |-> tokens, atoms |-> atoms ]
  ELSE IF IsSpace(text[i])
  THEN TokenizeFrom(text, i + 1, tokens, atoms, already_extracted_atoms)
  ELSE
    LET class == TokenMatcher(text[i])
        n == MatchLen(text, i, class)
        token == SubSeq(text, i, i + n - 1)
        extract_atoms == class = "word" /\ ~ already_extracted_atoms
    IN  TokenizeFrom(text, i + n, Append(tokens, token),
                     IF extract_atoms THEN atoms \cup (Range(token) \ {"$"}) ELSE atoms,
                     already_extracted_atoms \/ extract_atoms)

Tokenize(text) == TokenizeFrom(text, 1, << >>, {}, FALSE)

(***************************************************************************)
(* Expressions.  An integer-valued operand is const + coef * sum(vars); a  *)
(* constraint is one record shape for every kind of boolean expression.    *)
(***************************************************************************)
Num(const, coef, vars) ==
  [ none |-> FALSE, const |-> const, coef |-> coef, vars |-> vars ]

\* Python's None, what leaf_to_expr returns when no branch is taken
NoneNum == [ none |-> TRUE, const |-> 0, coef |-> 0, vars |-> << >> ]

BlankExpr ==
  [ kind |-> "const", value |-> TRUE, op |-> << >>, left |-> NoneNum,
    right |-> NoneNum, innocence |-> TRUE, symbols |-> << >>, parity |-> 0 ]

\* a Python bool given to the model as a constraint
ConstExpr(b) == [ BlankExpr EXCEPT !.value = b ]

\* cp.BoolVar(name=atom), or its negation
LitExpr(atom, positive) ==
  [ BlankExpr EXCEPT !.kind = "lit", !.symbols = << atom >>, !.value = positive ]

CmpExpr(left, right, op) ==
  [ BlankExpr EXCEPT !.kind = "cmp", !.left = left, !.right = right, !.op = op ]

\* int(leaf_text) of a run of decimal digits
RECURSIVE IntOf(_)
IntOf(digits) ==
  IF digits = << >> THEN 0
  ELSE 10 * IntOf(SubSeq(digits, 1, Len(digits) - 1))
       + (IndexOf(DigitChars, digits[Len(digits)]) - 1)

\* a slip in lines 92-95: the '$' mark is dropped and the innocents counted
LeafToExprIgnoresMark(leaf_text) ==
  LET first_char == leaf_text[1]
  IN  IF IsAlpha(first_char) THEN Num(0, 1, leaf_text)
      ELSE IF first_char = "$" THEN Num(0, 1, Tail(leaf_text))
      ELSE IF IsDigit(first_char) THEN Num(IntOf(leaf_text), 0, << >>)
      ELSE NoneNum

LeafToExpr(leaf_text) ==
  LET first_char == leaf_text[1]
  IN  IF IsAlpha(first_char) THEN Num(0, 1, leaf_text)
      ELSE IF first_char = "$" THEN Num(Len(leaf_text) - 1, -1, Tail(leaf_text))
      ELSE IF IsDigit(first_char) THEN Num(IntOf(leaf_text), 0, << >>)
      ELSE NoneNum

\* the operators use_op knows; any other raises RuntimeError
SupportedOps ==
  { << ">", "=" >>, << ">" >>, << "<", "=" >>, << "<" >>, << "=" >>,
    << "=", "=" >>, << "!", "=" >>, << "<", ">" >> }

\* a slip in lines 48-49: '!=' and '<>' compare with > in place of !=
UseOpNotEqualAsGreater(left, right, op) ==
  IF op = << ">", "=" >> THEN left >= right
  ELSE IF op = << ">" >> THEN left > right
  ELSE IF op = << "<", "=" >> THEN left <= right
  ELSE IF op = << "<" >> THEN left < right
  ELSE IF op = << "=" >> \/ op = << "=", "=" >> THEN left = right
  ELSE op \in { << "!", "=" >>, << "<", ">" >> } /\ left > right

\* use_op applied to the two integer values of its operands
UseOp(left, right, op) ==
  IF op = << ">", "=" >> THEN left >= right
  ELSE IF op = << ">" >> THEN left > right
  ELSE IF op = << "<", "=" >> THEN left <= right
  ELSE IF op = << "<" >> THEN left < right
  ELSE IF op = << "=" >> \/ op = << "=", "=" >> THEN left = right
  ELSE op \in { << "!", "=" >>, << "<", ">" >> } /\ left # right

\* innocence, symbols = (False, leaf[1:]) if leaf[0] == '$' else (True, leaf)
Polarity(leaf) ==
  IF leaf[1] = "$" THEN [ innocence |-> FALSE, symbols |-> Tail(leaf) ]
  ELSE [ innocence |-> TRUE, symbols |-> leaf ]

ConnectedExpr(leaf) ==
  LET p == Polarity(leaf)
  IN  IF Len(p.symbols) < 3 THEN ConstExpr(TRUE)
      ELSE [ BlankExpr EXCEPT !.kind = "conn", !.innocence = p.innocence,
                              !.symbols = p.symbols ]

ParityExpr(leaf, parity_str) ==
  LET p == Polarity(leaf)
  IN  [ BlankExpr EXCEPT !.kind = "par", !.innocence = p.innocence,
                         !.symbols = p.symbols,
                         !.parity = IF parity_str = << "o", "d", "d" >> THEN 1 ELSE 0 ]

(***************************************************************************)
(* The value of an expression under an assignment of its variables.        *)
(***************************************************************************)
Bit(b) == IF b THEN 1 ELSE 0

\* cp.sum(atoms): a variable named twice is counted twice
RECURSIVE SumOf(_, _)
SumOf(vars, asg) ==
  IF vars = << >> THEN 0 ELSE Bit(asg[Head(vars)]) + SumOf(Tail(vars), asg)

NumVal(num, asg) == num.const + num.coef * SumOf(num.vars, asg)

\* one fail_test of connected_expr, center the 1-based index of the centre
FailTest(innocence, atoms, center, asg) ==
  LET left == { atoms[j] : j \in 1 .. center - 1 }
      right == { atoms[j] : j \in center + 1 .. Len(atoms) }
  IN  IF innocence
      THEN /\ \E a \in left : asg[a]
           /\ ~ asg[atoms[center]]
           /\ \E a \in right : asg[a]
      ELSE /\ ~ (\A a \in left : asg[a])
           /\ asg[atoms[center]]
           /\ ~ (\A a \in right : asg[a])

\* a slip in lines 64-66: only the two neighbours of the centre are looked at
ConnectedHoldsNeighbours(innocence, atoms, asg) ==
  ~ \E center \in 2 .. Len(atoms) - 1 :
      IF innocence
      THEN asg[atoms[center - 1]] /\ ~ asg[atoms[center]] /\ asg[atoms[center + 1]]
      ELSE ~ asg[atoms[center - 1]] /\ asg[atoms[center]] /\ ~ asg[atoms[center + 1]]

\* ~cp.any(tests_for_failure)
ConnectedHolds(innocence, atoms, asg) ==
  ~ \E center \in 2 .. Len(atoms) - 1 : FailTest(innocence, atoms, center, asg)

\* a slip in lines 80-83: the innocents are counted whatever the polarity
ParityHoldsOfInnocents(innocence, atoms, parity, asg) ==
  SumOf(atoms, asg) % 2 = parity

\* count_expr % 2 == parity
ParityHolds(innocence, atoms, parity, asg) ==
  LET count_expr == IF innocence THEN SumOf(atoms, asg)
                    ELSE Len(atoms) - SumOf(atoms, asg)
  IN  count_expr % 2 = parity

Holds(expr, asg) ==
  CASE expr.kind = "const" -> expr.value
    [] expr.kind = "lit"   -> asg[expr.symbols[1]] = expr.value
    [] expr.kind = "cmp"   -> UseOp(NumVal(expr.left, asg), NumVal(expr.right, asg), expr.op)
    [] expr.kind = "conn"  -> ConnectedHolds(expr.innocence, expr.symbols, asg)
    [] OTHER               -> ParityHolds(expr.innocence, expr.symbols, expr.parity, asg)

VarsOfExpr(expr) ==
  Range(expr.symbols) \cup Range(expr.left.vars) \cup Range(expr.right.vars)

VarsOf(constraints) == UNION { VarsOfExpr(constraints[i]) : i \in DOMAIN constraints }

\* the models of a list of constraints
Models(constraints) ==
  { asg \in [ VarsOf(constraints) -> BOOLEAN ] :
      \A i \in DOMAIN constraints : Holds(constraints[i], asg) }

Satisfiable(constraints) ==
  \E asg \in [ VarsOf(constraints) -> BOOLEAN ] :
    \A i \in DOMAIN constraints : Holds(constraints[i], asg)

(***************************************************************************)
(* The solver oracle.  time_limit is << >> for Python's None (the default  *)
(* of solve()) and << n >> for a budget of n seconds.  slow says whether   *)
(* the instance needs more time than any budget allows: with a budget the  *)
(* solve gives up with UNKNOWN, without one it does not return.            *)
(***************************************************************************)
SOLVER_SECONDS == 1

NoLimit == << >>

Solve(constraints, time_limit, slow) ==
  IF slow THEN (IF time_limit = NoLimit THEN "HANG" ELSE "UNKNOWN")
  ELSE IF Satisfiable(constraints) THEN "FEASIBLE"
  ELSE "UNSATISFIABLE"

(***************************************************************************)
(* find_known_facts: two probes per atom, each on a copy of the model with *)
(* one literal added; solve() is falsy exactly when no solution is found.  *)
(***************************************************************************)
Fact(atom, what) == [ who |-> UpperChar(atom), what |-> what ]

\* the time_limit argument of the solve after a clue, and of each probe
MainTimeLimit == << SOLVER_SECONDS >>

ProbeTimeLimit == NoLimit

\* model.copy(): a model of its own holding the same constraints
Copy(model) == model

\* model.copy().add(lit): the model a probe solves
Hypothesis(model, lit) == Append(Copy(model), lit)

\* a slip in lines 111 and 115: model.add(lit), the literal goes into the
\* caller's model
HeldAfterShared(model, lit) == Append(model, lit)

\* the model the caller holds once model.copy().add(lit) has been evaluated
HeldAfter(model, lit) == model

\* a slip in lines 113 and 117: the two verdicts exchanged
ProbeSwapped(model, atom, slow) ==
  LET if_true == Hypothesis(model, LitExpr(atom, TRUE))
      held == HeldAfter(model, LitExpr(atom, TRUE))
      if_false == Hypothesis(held, LitExpr(atom, FALSE))
  IN  IF Solve(if_true, ProbeTimeLimit, slow) # "FEASIBLE"
      THEN [ facts |-> { Fact(atom, "is innocent.") }, probes |-> { if_true },
             model |-> held ]
      ELSE [ facts |-> IF Solve(if_false, ProbeTimeLimit, slow) # "FEASIBLE"
                       THEN { Fact(atom, "is a criminal.") }
                       ELSE {},
             probes |-> { if_true, if_false },
             model |-> HeldAfter(held, LitExpr(atom, FALSE)) ]

\* one pass of the for loop: the lines it yields, the models it solves and
\* the model the caller holds after it
Probe(model, atom, slow) ==
  LET if_true == Hypothesis(model, LitExpr(atom, TRUE))
      held == HeldAfter(model, LitExpr(atom, TRUE))
      if_false == Hypothesis(held, LitExpr(atom, FALSE))
  IN  IF Solve(if_true, ProbeTimeLimit, slow) # "FEASIBLE"
      THEN [ facts |-> { Fact(atom, "is a criminal.") }, probes |-> { if_true },
             model |-> held ]
      ELSE [ facts |-> IF Solve(if_false, ProbeTimeLimit, slow) # "FEASIBLE"
                       THEN { Fact(atom, "is innocent.") }
                       ELSE {},
             probes |-> { if_true, if_false },
             model |-> HeldAfter(held, LitExpr(atom, FALSE)) ]

\* find_known_facts run to its end, the for loop taking the atoms in some
\* order of the set: the lines yielded, the models solved, and the model the
\* caller holds at the end
RECURSIVE FindKnownFacts(_, _, _)
FindKnownFacts(model, atomics, slow) ==
  IF atomics = {} THEN [ facts |-> {}, probes |-> {}, model |-> model ]
  ELSE LET atom == CHOOSE a \in atomics : TRUE
           one == Probe(model, atom, slow)
           rest == FindKnownFacts(one.model, atomics \ { atom }, slow)
       IN  [ facts |-> one.facts \cup rest.facts,
             probes |-> one.probes \cup rest.probes,
             model |-> rest.model ]

\* a probe that does not return: the generator, and set() around it, never end
ScanHangs(model, atomics, slow) ==
  \E atom \in atomics :
    Solve(Hypothesis(model, LitExpr(atom, TRUE)), ProbeTimeLimit, slow) = "HANG"

(***************************************************************************)
(* The session.                                                            *)
(***************************************************************************)
WELCOME == "Starting a new game."

HELP == "This program is a solver for http://cluesbysam.com ..."

TIMEOUT_WARNING == "Failed to solve: the current set of rules is too complex!"

VARIABLES
  pc,           \* "prompt": about to read a line; "done": main returned;
                \* "crashed": an uncaught exception ended main; "hung": a solve
                \* is still running; "applied": a function was applied on its
                \* own and main is not run
  the_truth,    \* the constraints of the cpmpy model, in the order added
  all_atomics,  \* the variable names registered so far
  known_facts,  \* the facts found by the last scan
  clue_text,    \* the last line read, stripped and lowercased
  printed,      \* the fact lines printed for the last line read
  message,      \* the message printed last
  status,       \* the exit status of the model's last solve
  budgets,      \* the time_limit of every solve made for the last line read
  scanned,      \* the atoms probed for the last line read
  announced,    \* every fact line printed since the session began
  probed,       \* the models the probes for the last line read have solved
  deck,         \* the name of the deck of lines the user types from
  trial         \* a function of the program applied to an input of its own

vars ==
  << pc, the_truth, all_atomics, known_facts, clue_text, printed, message,
     status, budgets, scanned, announced, probed, deck, trial >>

\* enter_clue: the line, or the exception raised in its place
EnterClue(raw) ==
  LET text == Lower(Strip(raw))
  IN  IF text \in { << "h" >>, << "h", "e", "l", "p" >> }
      THEN [ raise |-> "TryAgain", message |-> HELP, clue_text |-> text ]
      ELSE IF text \in { << "q" >>, << "q", "u", "i", "t" >> }
      THEN [ raise |-> "Exit", message |-> "Goodbye!", clue_text |-> text ]
      ELSE [ raise |-> "", message |-> "", clue_text |-> text ]

\* lines 187-201 of main: the expression of a clue, or the exception raised
Compile(text) ==
  LET t == Tokenize(text)
      tokens == t.tokens
      left == tokens[1]
      op == tokens[2]
      right == tokens[3]
      failed(kind, msg) ==
        [ raise |-> kind, message |-> msg, expr |-> BlankExpr, atomics |-> t.atoms ]
      ok(expr) ==
        [ raise |-> "", message |-> "", expr |-> expr, atomics |-> t.atoms ]
  IN  IF Len(tokens) # 3 THEN failed("TryAgain", "Syntax error 1")
      ELSE IF op = << "i", "s" >>
      THEN IF right = << "c", "o", "n", "n", "e", "c", "t", "e", "d" >>
           THEN ok(ConnectedExpr(left))
           ELSE IF right \in { << "o", "d", "d" >>, << "e", "v", "e", "n" >> }
           THEN ok(ParityExpr(left, right))
           ELSE failed("TryAgain", "Syntax error 2")
      ELSE IF op \notin SupportedOps
      THEN failed("RuntimeError", "Unsupported ast operator")
      ELSE ok(CmpExpr(LeafToExpr(left), LeafToExpr(right), op))

(***************************************************************************)
(* The lines a user may type.                                              *)
(***************************************************************************)
Lefts == { << "a" >>, << "b" >>, << "a", "b" >> }

Operators == { << "=" >>, << "<" >>, << "+" >> }

Rights == { << "0" >>, << "1" >>, << "b" >> }

ArithmeticLines == { l \o o \o r : l \in Lefts, o \in Operators, r \in Rights }

OtherLines ==
  { << "1", "=", "b" >>,
    << "1", " ", "=", " ", "a" >>,
    << "$", "a", "!", "=", "1" >>,
    << "a", "b", ">", "0" >>,
    << "a", ">", "=", "b" >>,
    << "a", "<", ">", "b" >>,
    << "$", "a", "b", "<", "=", "c" >>,
    << "c", "=", "=", "1" >>,
    << "a", "b", "c", " ", "i", "s", " ", "c", "o", "n", "n", "e", "c", "t", "e", "d" >>,
    << "$", "a", "b", "c", " ", "i", "s", " ", "c", "o", "n", "n", "e", "c", "t", "e", "d" >>,
    << "a", "b", " ", "i", "s", " ", "o", "d", "d" >>,
    << "$", "b", "c", " ", "i", "s", " ", "e", "v", "e", "n" >>,
    << "a", " ", "i", "s", " ", "f", "o", "o" >>,
    << "a", "=" >>,
    << "a", " ", "=", " ", "1", " ", "1" >>,
    << >>,
    << " ", "A", " ", "=", " ", "0", " " >>,
    << "h" >>,
    << "H", "e", "l", "p" >>,
    << "q" >>,
    << "q", "u", "i", "t" >> }

Lines == ArithmeticLines \cup OtherLines

\* the lines of the worked examples: connectivity, two-line parity and
\* comparison
ConnectivityLines ==
  { << "a", "b", "c", "d", "e", " ", "i", "s", " ", "c", "o", "n", "n", "e", "c", "t", "e", "d" >>,
    << "a", "=", "0" >>,
    << "e", "=", "1" >>,
    << "a", "=", "1" >> }

TwoLineParityLines ==
  { << "a", "b", "c", "!", "=", "0" >>,
    << "a", "b", "c", "!", "=", "2" >> }

ComparisonLines ==
  { << "a", "=", "1" >>,
    << "b", "=", "0" >>,
    << "c", "d", "=", "1" >>,
    << "c", "=", "1" >> }

\* one line for each of the other ways out of the loop body
OtherExits ==
  { << "a", "+", "b" >>,
    << "a", " ", "i", "s", " ", "f", "o", "o" >>,
    << "h" >>,
    << "q" >> }

\* the decks of lines a session may be run on, by name: the lines the user
\* types from, and the number of clues the session is followed for
Decks ==
  [ session      |-> [ lines |-> Lines, clues |-> MaxClues ],
    connectivity |-> [ lines |-> ConnectivityLines \cup OtherExits,
                       clues |-> MaxExampleClues ],
    parity       |-> [ lines |-> TwoLineParityLines \cup OtherExits,
                       clues |-> MaxExampleClues ],
    comparison   |-> [ lines |-> ComparisonLines \cup OtherExits,
                       clues |-> MaxExampleClues ] ]

ExampleDecks == { "connectivity", "parity", "comparison" }

AllLines == UNION { Decks[d].lines : d \in DOMAIN Decks }

\* what enter_clue and the compiler make of each line
Entered == [ raw \in AllLines |-> EnterClue(raw) ]

Compiled == [ raw \in AllLines |-> Compile(Entered[raw].clue_text) ]

\* where an exception raised in the loop body leaves main
Handler(raise) ==
  CASE raise = "TryAgain" -> "prompt"
    [] raise = "Exit"     -> "done"
    [] OTHER              -> "crashed"

\* a slip in line 202: the atoms of the clue replace the registered ones
RegisterLatestOnly(registered, atomics) == atomics

\* all_atomics.update(atomics)
Register(registered, atomics) == registered \cup atomics

\* a slip in lines 209-210: an unsatisfiable store does not end the session
VerdictIgnoresUnsat(exitstatus) ==
  IF exitstatus = "UNKNOWN"
  THEN [ raise |-> "Exit", message |-> TIMEOUT_WARNING ]
  ELSE [ raise |-> "", message |-> "" ]

\* a slip in lines 211-212: the timeout warning is printed and the loop goes on
VerdictWarnsOnly(exitstatus) ==
  IF exitstatus = "UNSATISFIABLE"
  THEN [ raise |-> "Exit", message |-> "No solution. Contradiction found." ]
  ELSE IF exitstatus = "UNKNOWN"
  THEN [ raise |-> "", message |-> TIMEOUT_WARNING ]
  ELSE [ raise |-> "", message |-> "" ]

\* lines 208-212 of main: what the exit status of the solve raises
Verdict(exitstatus) ==
  IF exitstatus = "UNSATISFIABLE"
  THEN [ raise |-> "Exit", message |-> "No solution. Contradiction found." ]
  ELSE IF exitstatus = "UNKNOWN"
  THEN [ raise |-> "Exit", message |-> TIMEOUT_WARNING ]
  ELSE [ raise |-> "", message |-> "" ]

\* lines 202-219 of main: register, add, solve, scan, diff and print
Deduce(text, expr, atomics, slowMain, slowProbe) ==
  LET truth == Append(the_truth, expr)
      registered == Register(all_atomics, atomics)
      exitstatus == Solve(truth, MainTimeLimit, slowMain)
      verdict == Verdict(exitstatus)
      scan == FindKnownFacts(truth, registered, slowProbe)
      new_known_facts == scan.facts
      base == [ pc |-> "prompt", the_truth |-> truth, all_atomics |-> registered,
                known_facts |-> known_facts, clue_text |-> text, printed |-> {},
                message |-> verdict.message, status |-> exitstatus,
                budgets |-> { MainTimeLimit }, scanned |-> {}, probed |-> {} ]
  IN  IF verdict.raise # ""
      THEN [ base EXCEPT !.pc = Handler(verdict.raise) ]
      ELSE IF ScanHangs(truth, registered, slowProbe)
      THEN [ base EXCEPT !.pc = "hung", !.budgets = { MainTimeLimit, ProbeTimeLimit },
                         !.scanned = registered ]
      ELSE [ base EXCEPT !.the_truth = scan.model,
                         !.known_facts = new_known_facts,
                         !.printed = new_known_facts \ known_facts,
                         !.probed = scan.probes,
                         !.budgets = IF registered = {} THEN { MainTimeLimit }
                                     ELSE { MainTimeLimit, ProbeTimeLimit },
                         !.scanned = registered ]

\* a slip in the order of lines 188-202: the atoms are registered before the
\* clue is validated
LoopBodyRegistersFirst(raw, slowMain, slowProbe) ==
  LET e == Entered[raw]
      c == Compiled[raw]
      raised(kind, msg, registered) ==
        [ pc |-> Handler(kind), the_truth |-> the_truth, all_atomics |-> registered,
          known_facts |-> known_facts, clue_text |-> e.clue_text, printed |-> {},
          message |-> msg, status |-> status, budgets |-> {}, scanned |-> {},
          probed |-> {} ]
  IN  IF e.raise # "" THEN raised(e.raise, e.message, all_atomics)
      ELSE IF c.raise # ""
      THEN raised(c.raise, c.message, Register(all_atomics, c.atomics))
      ELSE Deduce(e.clue_text, c.expr, c.atomics, slowMain, slowProbe)

\* one pass of the while loop of main on the line raw
LoopBody(raw, slowMain, slowProbe) ==
  LET e == Entered[raw]
      c == Compiled[raw]
      raised(kind, msg) ==
        [ pc |-> Handler(kind), the_truth |-> the_truth, all_atomics |-> all_atomics,
          known_facts |-> known_facts, clue_text |-> e.clue_text, printed |-> {},
          message |-> msg, status |-> status, budgets |-> {}, scanned |-> {},
          probed |-> {} ]
  IN  IF e.raise # "" THEN raised(e.raise, e.message)
      ELSE IF c.raise # "" THEN raised(c.raise, c.message)
      ELSE Deduce(e.clue_text, c.expr, c.atomics, slowMain, slowProbe)

(***************************************************************************)
(* The state machine.                                                      *)
(***************************************************************************)
\* no function has been applied
NoTrial == [ fn |-> "none" ]

\* the state main builds before its loop
Fresh ==
  /\ pc = "prompt"
  /\ the_truth = << >>
  /\ all_atomics = {}
  /\ known_facts = {}
  /\ clue_text = << >>
  /\ printed = {}
  /\ message = WELCOME
  /\ status = "NOT_RUN"
  /\ budgets = {}
  /\ scanned = {}
  /\ announced = {}
  /\ probed = {}
  /\ trial = NoTrial

Init ==
  /\ Fresh
  /\ deck = "session"

Apply(next) ==
  /\ pc' = next.pc
  /\ the_truth' = next.the_truth
  /\ all_atomics' = next.all_atomics
  /\ known_facts' = next.known_facts
  /\ clue_text' = next.clue_text
  /\ printed' = next.printed
  /\ message' = next.message
  /\ status' = next.status
  /\ budgets' = next.budgets
  /\ scanned' = next.scanned
  /\ announced' = announced \cup next.printed
  /\ probed' = next.probed
  /\ UNCHANGED << deck, trial >>

\* main is at input() and the session has room for another clue
Prompting == pc = "prompt" /\ Len(the_truth) < Decks[deck].clues

\* the line raw gets past enter_clue and the compiler
Compiles(raw) == Entered[raw].raise = "" /\ Compiled[raw].raise = ""

\* the exit status of the solve after the clue of raw is added
StatusAfter(raw, slowMain) ==
  Solve(Append(the_truth, Compiled[raw].expr), MainTimeLimit, slowMain)

\* "h" or "help": the help text is printed and the loop goes on
Help ==
  /\ Prompting
  /\ \E raw \in Decks[deck].lines :
       /\ Entered[raw].raise = "TryAgain"
       /\ Apply(LoopBody(raw, FALSE, FALSE))

\* "q" or "quit": main returns
Quit ==
  /\ Prompting
  /\ \E raw \in Decks[deck].lines :
       /\ Entered[raw].raise = "Exit"
       /\ Apply(LoopBody(raw, FALSE, FALSE))

\* a wrong token count, or an unknown word after "is": TryAgain
Reject ==
  /\ Prompting
  /\ \E raw \in Decks[deck].lines :
       /\ Entered[raw].raise = ""
       /\ Compile(EnterClue(raw).clue_text).raise = "TryAgain"
       /\ Apply(LoopBody(raw, FALSE, FALSE))

\* an operator use_op does not know: RuntimeError, which main does not catch
Unsupported ==
  /\ Prompting
  /\ \E raw \in Decks[deck].lines :
       /\ Entered[raw].raise = ""
       /\ Compile(EnterClue(raw).clue_text).raise = "RuntimeError"
       /\ Apply(LoopBody(raw, FALSE, FALSE))

\* the clue contradicts the store: Exit
Contradiction ==
  /\ Prompting
  /\ \E raw \in Decks[deck].lines :
       /\ Compiles(raw)
       /\ StatusAfter(raw, FALSE) = "UNSATISFIABLE"
       /\ Apply(LoopBody(raw, FALSE, FALSE))

\* the solve after the clue runs out of time: Exit
Timeout ==
  /\ Prompting
  /\ \E raw \in Decks[deck].lines :
       /\ Compiles(raw)
       /\ StatusAfter(raw, TRUE) = "UNKNOWN"
       /\ Apply(LoopBody(raw, TRUE, FALSE))

\* the clue is accepted and the scan reports the new facts
Accept ==
  /\ Prompting
  /\ \E raw \in Decks[deck].lines :
       /\ Compiles(raw)
       /\ StatusAfter(raw, FALSE) = "FEASIBLE"
       /\ Apply(LoopBody(raw, FALSE, FALSE))

\* the clue is accepted and a probe of the scan does not return
Stall ==
  /\ Prompting
  /\ \E raw \in Decks[deck].lines :
       /\ Compiles(raw)
       /\ StatusAfter(raw, FALSE) = "FEASIBLE"
       /\ LoopBody(raw, FALSE, TRUE).pc = "hung"
       /\ Apply(LoopBody(raw, FALSE, TRUE))

Next ==
  \/ Help
  \/ Quit
  \/ Reject
  \/ Unsupported
  \/ Contradiction
  \/ Timeout
  \/ Accept
  \/ Stall

Spec == Init /\ [][Next]_vars

(***************************************************************************)
(* The functions of the program applied on their own, each to one input    *)
(* drawn from a bounded set, before the session has read a line.           *)
(***************************************************************************)
\* the first n suspects
Suspects(n) == { LowerLetters[i] : i \in 1 .. n }

\* the clusters of at most n letters of an alphabet
Clusters(alphabet, n) == UNION { [ 1 .. k -> alphabet ] : k \in 1 .. n }

\* the same cluster with the '$' mark in front
Marked(cluster) == << "$" >> \o cluster

\* the clusters of distinct suspects, bare and marked
ConnectedLeaves ==
  LET distinct == { c \in Clusters(Suspects(MaxSuspects), MaxSuspects) :
                      \A i, j \in DOMAIN c : i # j => c[i] # c[j] }
  IN  distinct \cup { Marked(c) : c \in distinct }

\* main is not run: a function is applied and nothing else changes
Applied ==
  /\ pc' = "applied"
  /\ UNCHANGED << the_truth, all_atomics, known_facts, clue_text, printed,
               message, status, budgets, scanned, announced, probed, deck >>

\* connected_expr(leaf), evaluated under an assignment of its variables
TryConnected ==
  /\ Fresh
  /\ \E leaf \in ConnectedLeaves :
       \E asg \in [ Range(Polarity(leaf).symbols) -> BOOLEAN ] :
         trial' = [ fn |-> "connected_expr", leaf |-> leaf, asg |-> asg,
                    holds |-> Holds(ConnectedExpr(leaf), asg) ]
  /\ Applied

\* the clusters parity_expr is applied to, a letter written twice included
ParityLeaves ==
  LET clusters == Clusters(Suspects(MaxParity), MaxParity)
  IN  clusters \cup { Marked(c) : c \in clusters }

ParityWords == { << "o", "d", "d" >>, << "e", "v", "e", "n" >> }

\* parity_expr(leaf, parity_str), evaluated under an assignment of its
\* variables
TryParity ==
  /\ Fresh
  /\ \E leaf \in ParityLeaves, parity_str \in ParityWords :
       \E asg \in [ Range(Polarity(leaf).symbols) -> BOOLEAN ] :
         trial' = [ fn |-> "parity_expr", leaf |-> leaf, parity_str |-> parity_str,
                    asg |-> asg, holds |-> Holds(ParityExpr(leaf, parity_str), asg) ]
  /\ Applied

\* the operands of a comparison: bare clusters, marked clusters and numbers
Operands ==
  { << "a" >>, << "b" >>, << "a", "b" >>, << "a", "a" >>, << "c", "d" >>,
    << "p", "q" >>, << "r", "s" >>,
    << "$", "a" >>, << "$", "a", "b" >>, << "$", "c", "d" >>,
    << "0" >>, << "1" >>, << "2" >>, << "1", "0" >> }

\* use_op(leaf_to_expr(left), leaf_to_expr(right), op), evaluated under an
\* assignment of its variables
TryCompare ==
  /\ Fresh
  /\ \E left \in Operands, op \in SupportedOps, right \in Operands :
       LET expr == CmpExpr(LeafToExpr(left), LeafToExpr(right), op)
       IN  \E asg \in [ VarsOfExpr(expr) -> BOOLEAN ] :
             trial' = [ fn |-> "use_op", left |-> left, op |-> op, right |-> right,
                        asg |-> asg, holds |-> Holds(expr, asg) ]
  /\ Applied

\* the characters of the texts: letters, the mark, a digit, a symbol, a space
TextChars == { "a", "b", "$", "1", "=", " " }

\* the texts tokenize is applied to: the short texts and the session lines
Texts ==
  { << >> } \cup Clusters(TextChars, MaxText) \cup { Entered[raw].clue_text : raw \in AllLines }

\* tokenize(text)
TryTokenize ==
  /\ Fresh
  /\ \E text \in Texts :
       trial' = [ fn |-> "tokenize", text |-> text,
                  tokens |-> Tokenize(text).tokens, atoms |-> Tokenize(text).atoms ]
  /\ Applied

\* a session on the lines of one worked example
InitExamples ==
  /\ Fresh
  /\ deck \in ExampleDecks

\* a step of the session, or one function applied in its place
NextExamples ==
  \/ Next
  \/ TryConnected
  \/ TryParity
  \/ TryCompare
  \/ TryTokenize

SpecExamples == InitExamples /\ [][NextExamples]_vars

(***************************************************************************)
(* Vocabulary of the properties.                                           *)
(***************************************************************************)
\* atom has the value v in every model of the constraints
Entailed(constraints, atom, v) ==
  \A asg \in [ VarsOf(constraints) \cup { atom } -> BOOLEAN ] :
    (\A i \in DOMAIN constraints : Holds(constraints[i], asg)) => asg[atom] = v

Innocent(atom) == Fact(atom, "is innocent.")

Criminal(atom) == Fact(atom, "is a criminal.")

\* every fact line the session has on record or has just printed
Reported == known_facts \cup printed

\* the last line read was conjoined into the store and its scan returned
JustAccepted == pc = "prompt" /\ message = "" /\ the_truth # << >>

(***************************************************************************)
(* C1. Soundness: a reported "X is innocent" means X is true in every      *)
(* model of the store, a reported "X is a criminal" means X is false in    *)
(* every model of the store, and a registered variable that differs        *)
(* between two models of the store is not reported at all.                 *)
(***************************************************************************)
Soundness ==
  /\ \A f \in Reported : \E atom \in all_atomics : f \in { Innocent(atom), Criminal(atom) }
  /\ \A atom \in all_atomics :
       /\ Innocent(atom) \in Reported => Entailed(the_truth, atom, TRUE)
       /\ Criminal(atom) \in Reported => Entailed(the_truth, atom, FALSE)

\* a fact of each kind is on record while a registered variable is open
SoundnessWitness ==
  /\ \E atom \in all_atomics : Innocent(atom) \in known_facts
  /\ \E atom \in all_atomics : Criminal(atom) \in known_facts
  /\ \E atom \in all_atomics :
       ~ Entailed(the_truth, atom, TRUE) /\ ~ Entailed(the_truth, atom, FALSE)

(***************************************************************************)
(* C2. Monotonicity: the known facts after a clue include the known facts  *)
(* before it; no fact is dropped and none changes sides.                   *)
(***************************************************************************)
Monotonicity ==
  [][ /\ known_facts \subseteq known_facts'
      /\ \A atom \in all_atomics :
           ~ (Innocent(atom) \in known_facts /\ Criminal(atom) \in known_facts')
           /\ ~ (Criminal(atom) \in known_facts /\ Innocent(atom) \in known_facts') ]_vars

\* a second clue has added a fact to the ones the first clue gave
MonotonicityWitness ==
  /\ Len(the_truth) >= 2
  /\ printed # {}
  /\ known_facts \ printed # {}

(***************************************************************************)
(* C3. No re-announcement: no fact line is printed twice in a session, and *)
(* the lines printed after an accepted clue are exactly the forced facts   *)
(* of the current store that the previous accepted clue had not reported.  *)
(* A forced fact of the store is a variable of the store with the same     *)
(* value in every model of the store.                                      *)
(***************************************************************************)
ForcedFacts(constraints, atoms) ==
  { Innocent(atom) : atom \in { a \in atoms : Entailed(constraints, a, TRUE) } }
  \cup { Criminal(atom) : atom \in { a \in atoms : Entailed(constraints, a, FALSE) } }

NoReannouncement ==
  [][ /\ printed' \cap announced = {}
      /\ (pc' = "prompt" /\ message' = "")
           => printed' = ForcedFacts(the_truth', VarsOf(the_truth') \cup all_atomics')
                         \ known_facts ]_vars

\* the same with the forced facts taken over the registered variables alone
NoReannouncementOfRegistered ==
  [][ /\ printed' \cap announced = {}
      /\ (pc' = "prompt" /\ message' = "")
           => printed' = ForcedFacts(the_truth', all_atomics') \ known_facts ]_vars

(***************************************************************************)
(* C4. Completeness over all mentioned variables: after an accepted clue   *)
(* every variable of every accepted clue has been probed, and one whose    *)
(* value the store forces is among the known facts.  (The variables of the *)
(* store's expressions are all mentioned in accepted clues.)               *)
(***************************************************************************)
CompleteOverMentioned ==
  JustAccepted =>
    \A atom \in VarsOf(the_truth) :
      /\ atom \in scanned
      /\ Entailed(the_truth, atom, TRUE) => Innocent(atom) \in known_facts
      /\ Entailed(the_truth, atom, FALSE) => Criminal(atom) \in known_facts

(***************************************************************************)
(* C5. Contradiction terminates the session.                               *)
(***************************************************************************)
ContradictionMessage == "No solution. Contradiction found."

\* C5 as stated: a store made unsatisfiable always gets the contradiction
\* message, main returns, no fact is printed for the clue, and the store is
\* satisfiable at every prompt.
ContradictionReported ==
  /\ pc = "prompt" => Satisfiable(the_truth)
  /\ ~ Satisfiable(the_truth) =>
       pc = "done" /\ message = ContradictionMessage /\ printed = {}

\* C5 as amended: when a clue makes the store unsatisfiable main returns
\* without scanning or printing a fact for that clue, with the contradiction
\* message when the solve reports UNSATISFIABLE and with the timeout warning
\* when the solve runs out of its time budget; the store is satisfiable at
\* every prompt.
ContradictionEndsSession ==
  /\ pc = "prompt" => Satisfiable(the_truth)
  /\ ~ Satisfiable(the_truth) =>
       /\ pc = "done" /\ printed = {} /\ scanned = {}
       /\ \/ status = "UNSATISFIABLE" /\ message = ContradictionMessage
          \/ status = "UNKNOWN" /\ message = TIMEOUT_WARNING
  /\ status = "UNSATISFIABLE" =>
       ~ Satisfiable(the_truth) /\ message = ContradictionMessage

\* a second clue has contradicted the first and the solve has said so
ContradictionWitness ==
  /\ Len(the_truth) >= 2
  /\ ~ Satisfiable(the_truth)
  /\ status = "UNSATISFIABLE"
  /\ known_facts # {}
  /\ pc = "done"

(***************************************************************************)
(* C6. State unchanged on a recoverable input error: a line with a wrong   *)
(* token count, a line with an unknown word after "is", or the help        *)
(* command leaves the store, the registered variables and the known facts  *)
(* as they were, is answered with a message, and main prompts again.       *)
(***************************************************************************)
HelpTexts == { << "h" >>, << "h", "e", "l", "p" >> }

QuitTexts == { << "q" >>, << "q", "u", "i", "t" >> }

Keywords ==
  { << "c", "o", "n", "n", "e", "c", "t", "e", "d" >>, << "o", "d", "d" >>,
    << "e", "v", "e", "n" >> }

RejectedLine(text) ==
  LET tokens == Tokenize(text).tokens
  IN  \/ text \in HelpTexts
      \/ /\ text \notin QuitTexts
         /\ \/ Len(tokens) # 3
            \/ tokens[2] = << "i", "s" >> /\ tokens[3] \notin Keywords

RejectLeavesState ==
  [][ RejectedLine(clue_text') =>
        /\ the_truth' = the_truth
        /\ all_atomics' = all_atomics
        /\ known_facts' = known_facts
        /\ message' \in { HELP, "Syntax error 1", "Syntax error 2" }
        /\ pc' = "prompt" ]_vars

\* a line naming an unregistered letter was rejected after a fact was found
RejectWitness ==
  /\ RejectedLine(clue_text)
  /\ message = "Syntax error 2"
  /\ known_facts # {}
  /\ ~ (Tokenize(clue_text).atoms \subseteq all_atomics)
  /\ pc = "prompt"

(***************************************************************************)
(* C7. An unrecognized operator is a recoverable syntax error: a line of   *)
(* three tokens whose middle token is neither "is" nor a comparison        *)
(* operator is answered with a message, leaves the store as it was, and    *)
(* main prompts again.                                                     *)
(***************************************************************************)
UnknownOperator(text) ==
  LET tokens == Tokenize(text).tokens
  IN  Len(tokens) = 3 /\ tokens[2] \notin SupportedOps \cup { << "i", "s" >> }

UnknownOperatorRecovers ==
  [][ UnknownOperator(clue_text') =>
        /\ the_truth' = the_truth
        /\ message' \in { "Syntax error 1", "Syntax error 2" }
        /\ pc' = "prompt" ]_vars

(***************************************************************************)
(* C8. A left operand that is not a letter-cluster is rejected: a          *)
(* comparison of three tokens whose first token is a number or a symbol    *)
(* cluster is answered with a syntax error and is not conjoined into the   *)
(* store.                                                                  *)
(***************************************************************************)
LeftNotLetters(text) ==
  LET tokens == Tokenize(text).tokens
  IN  /\ Len(tokens) = 3
      /\ tokens[2] \in SupportedOps
      /\ TokenMatcher(tokens[1][1]) # "word"

LeftOperandChecked ==
  [][ LeftNotLetters(clue_text') =>
        /\ the_truth' = the_truth
        /\ message' \in { "Syntax error 1", "Syntax error 2" }
        /\ pc' = "prompt" ]_vars

(***************************************************************************)
(* C9. Solver timeout is surfaced: when the solve after a clue returns     *)
(* UNKNOWN the timeout warning is printed and main returns; no atom is     *)
(* probed and no fact is printed or recorded for that clue.                *)
(***************************************************************************)
TimeoutSurfaced ==
  status = "UNKNOWN" =>
    /\ pc = "done"
    /\ message = TIMEOUT_WARNING
    /\ scanned = {}
    /\ printed = {}
    /\ known_facts \subseteq announced

\* the solve timed out on a clue that would have forced a new fact
TimeoutWitness ==
  /\ status = "UNKNOWN"
  /\ pc = "done"
  /\ known_facts # {}
  /\ ForcedFacts(the_truth, all_atomics) \ known_facts # {}

(***************************************************************************)
(* C10. Every solve, the probes of the fact scan included, is given a time *)
(* budget, so that no line is left unanswered by a solve that does not     *)
(* return.                                                                 *)
(***************************************************************************)
AllSolvesBudgeted ==
  /\ NoLimit \notin budgets
  /\ pc # "hung"

(***************************************************************************)
(* C11. Probe isolation: the fact scan leaves the store as it found it.    *)
(* After a line is processed the store holds the constraints it held       *)
(* before, followed by the clue of the line when one was added, and every  *)
(* model a probe has solved is that store with the one literal of the      *)
(* probe: no literal of a probe is in the store or in another probe.       *)
(***************************************************************************)
ProbeIsolation ==
  [][ /\ \/ the_truth' = the_truth
         \/ \E raw \in Decks[deck].lines :
              /\ Compiles(raw)
              /\ the_truth' = Append(the_truth, Compiled[raw].expr)
      /\ \A p \in probed' :
           \E atom \in scanned', v \in BOOLEAN :
             p = Append(the_truth', LitExpr(atom, v)) ]_vars

\* a second clue has been accepted and four probes have been solved for it
ProbeIsolationWitness ==
  /\ JustAccepted
  /\ Len(the_truth) = 2
  /\ Cardinality(probed) >= 4

(***************************************************************************)
(* C12. Idempotent re-derivation: after a clue is accepted, a scan of the  *)
(* store over the registered variables gives the facts on record, and a    *)
(* second scan run on the store the first one leaves gives the same facts  *)
(* again, so its delta against the first is empty.                         *)
(***************************************************************************)
RederivationIdempotent ==
  JustAccepted =>
    LET first == FindKnownFacts(the_truth, all_atomics, FALSE)
        second == FindKnownFacts(first.model, all_atomics, FALSE)
    IN  /\ first.facts = known_facts
        /\ second.facts = first.facts
        /\ second.facts \ first.facts = {}

\* two facts are on record and a registered variable is open
RederivationWitness ==
  /\ JustAccepted
  /\ Cardinality(known_facts) >= 2
  /\ \E atom \in all_atomics :
       Innocent(atom) \notin known_facts /\ Criminal(atom) \notin known_facts

(***************************************************************************)
(* C13. Connectivity predicate: for every sequence of distinct variables,  *)
(* each polarity and each assignment, connected_expr is true exactly when  *)
(* the positions of the variables having the target polarity (innocent for *)
(* a bare cluster, criminal for a '$'-marked one) form at most one run     *)
(* without a gap; on fewer than 3 variables it is true under every         *)
(* assignment.                                                             *)
(***************************************************************************)
ConnectedIsOneRun ==
  trial.fn = "connected_expr" =>
    LET marked == Head(trial.leaf) = "$"
        variables == IF marked THEN Tail(trial.leaf) ELSE trial.leaf
        target == { i \in DOMAIN variables : trial.asg[variables[i]] = ~ marked }
        one_run == \A i, j \in target : \A k \in i .. j : k \in target
    IN  /\ trial.holds <=> one_run
        /\ Len(variables) < 3 => trial.holds

\* four suspects of a marked cluster, the criminals in two runs
ConnectedWitness ==
  /\ trial.fn = "connected_expr"
  /\ Head(trial.leaf) = "$"
  /\ Len(trial.leaf) = 5
  /\ ~ trial.holds
  /\ \E i \in 2 .. 5 : trial.asg[trial.leaf[i]]

(***************************************************************************)
(* C14. Connectivity example: once 'abcde is connected', 'a=0' and 'e=1'   *)
(* have been accepted in this order, a fact about B or a fact about D has  *)
(* been reported.                                                          *)
(***************************************************************************)
\* the constraint the line raw is compiled to
ExprOf(raw) == Compiled[raw].expr

\* the store after the three clues of the example
ConnectivityExample ==
  /\ JustAccepted
  /\ the_truth =
       << ExprOf(<< "a", "b", "c", "d", "e", " ", "i", "s", " ",
                   "c", "o", "n", "n", "e", "c", "t", "e", "d" >>),
          ExprOf(<< "a", "=", "0" >>),
          ExprOf(<< "e", "=", "1" >>) >>

ConnectivityForcesBOrD ==
  ConnectivityExample =>
    \E f \in known_facts \cup announced :
      f \in { Innocent("b"), Criminal("b"), Innocent("d"), Criminal("d") }

\* C14 as the code has it: after the three clues the facts on record are
\* that A is a criminal and E is innocent, nothing else has been printed,
\* and each of B, C and D is innocent in one model of the store and a
\* criminal in another.
ConnectivityLeavesBAndDOpen ==
  ConnectivityExample =>
    /\ known_facts = { Criminal("a"), Innocent("e") }
    /\ announced = known_facts
    /\ \A atom \in { "b", "c", "d" } :
         /\ atom \in all_atomics
         /\ ~ Entailed(the_truth, atom, TRUE)
         /\ ~ Entailed(the_truth, atom, FALSE)

\* the three clues have been accepted and the scan has run over A .. E
ConnectivityExampleWitness ==
  /\ ConnectivityExample
  /\ scanned = { "a", "b", "c", "d", "e" }

(***************************************************************************)
(* C15. Two-line parity example: once 'abc!=0' and 'abc!=2' have both been *)
(* accepted, every model of the store has exactly one of A, B and C        *)
(* innocent.                                                               *)
(***************************************************************************)
\* the number of innocents among the atoms under an assignment
InnocentsAmong(atoms, asg) == Cardinality({ a \in atoms : asg[a] })

\* both clues of the example are in the store and main is at its prompt
TwoLineParityExample ==
  /\ JustAccepted
  /\ \E i \in DOMAIN the_truth :
       the_truth[i] = ExprOf(<< "a", "b", "c", "!", "=", "0" >>)
  /\ \E i \in DOMAIN the_truth :
       the_truth[i] = ExprOf(<< "a", "b", "c", "!", "=", "2" >>)

TwoLinesForceExactlyOne ==
  TwoLineParityExample =>
    \A asg \in Models(the_truth) : InnocentsAmong({ "a", "b", "c" }, asg) = 1

\* C15 as the code and its help text have it: the two clues leave an odd
\* number of innocents among A, B and C, which is 1 in some models of the
\* store and 3 in another, and no fact is reported.
TwoLinesForceOdd ==
  TwoLineParityExample =>
    /\ { InnocentsAmong({ "a", "b", "c" }, asg) : asg \in Models(the_truth) } = { 1, 3 }
    /\ known_facts = {}

\* both clues have been accepted and the scan has run over A, B and C
TwoLineParityWitness ==
  /\ TwoLineParityExample
  /\ Len(the_truth) = 2
  /\ scanned = { "a", "b", "c" }

(***************************************************************************)
(* C16. The help text on '<=' between two groups: 'pq<=rs' holds under an  *)
(* assignment exactly when the criminals among R and S are at least as     *)
(* many as the criminals among P and Q.                                    *)
(***************************************************************************)
\* the number of criminals among the atoms under an assignment
CriminalsAmong(atoms, asg) == Cardinality({ a \in atoms : ~ asg[a] })

HelpLessOrEqualCountsCriminals ==
  ( /\ trial.fn = "use_op"
    /\ trial.left = << "p", "q" >>
    /\ trial.op = << "<", "=" >>
    /\ trial.right = << "r", "s" >> )
  => ( trial.holds <=>
         CriminalsAmong({ "r", "s" }, trial.asg) >= CriminalsAmong({ "p", "q" }, trial.asg) )

(***************************************************************************)
(* C17. Arithmetic comparison semantics: each side of '<left> <op> <right>'*)
(* is the number of innocents among its letters (bare cluster), the number *)
(* of criminals among its letters ('$'-marked cluster: letter count minus  *)
(* innocents) or the value of the number written, and the clue holds       *)
(* exactly when op holds of the two values.  In a session, 'a=1' makes the *)
(* scan report A innocent, 'b=0' B a criminal, 'cd=1' followed by 'c=1' D  *)
(* a criminal, and 'cd=1' alone nothing.                                   *)
(***************************************************************************)
\* the numbers among the operands, by what they denote
NumberWritten(leaf) ==
  CASE leaf = << "0" >> -> 0
    [] leaf = << "1" >> -> 1
    [] leaf = << "2" >> -> 2
    [] leaf = << "1", "0" >> -> 10

\* what a side of a comparison stands for; a letter written twice is two
\* letters of the cluster
SideValue(leaf, asg) ==
  IF Head(leaf) \in Digits THEN NumberWritten(leaf)
  ELSE IF Head(leaf) = "$"
  THEN (Len(leaf) - 1) - Cardinality({ i \in 2 .. Len(leaf) : asg[leaf[i]] })
  ELSE Cardinality({ i \in DOMAIN leaf : asg[leaf[i]] })

\* what an operator stands for
OpMeaning(op, x, y) ==
  CASE op \in { << "=" >>, << "=", "=" >> }           -> x = y
    [] op \in { << "!", "=" >>, << "<", ">" >> }      -> x # y
    [] op = << "<" >>                                  -> x < y
    [] op = << "<", "=" >>                             -> x < y \/ x = y
    [] op = << ">" >>                                  -> y < x
    [] op = << ">", "=" >>                             -> y < x \/ x = y

\* the line raw is among the clues of the store
InStore(raw) == \E i \in DOMAIN the_truth : the_truth[i] = ExprOf(raw)

ParityCountsTarget ==
  trial.fn = "parity_expr" =>
    LET marked == Head(trial.leaf) = "$"
        variables == IF marked THEN Tail(trial.leaf) ELSE trial.leaf
        target == { i \in DOMAIN variables : trial.asg[variables[i]] = ~ marked }
        odd == \E k \in 0 .. Len(variables) : Cardinality(target) = 2 * k + 1
    IN  IF trial.parity_str = << "o", "d", "d" >>
        THEN trial.holds <=> odd
        ELSE trial.holds <=> ~ odd

\* a marked cluster of three suspects with one criminal, asked for 'odd'
ParityWitness ==
  /\ trial.fn = "parity_expr"
  /\ Head(trial.leaf) = "$"
  /\ Len(trial.leaf) = 4
  /\ trial.parity_str = << "o", "d", "d" >>
  /\ trial.holds
  /\ Cardinality({ a \in DOMAIN trial.asg : ~ trial.asg[a] }) = 1
  /\ Cardinality(DOMAIN trial.asg) = 3

(***************************************************************************)
(* C19. Tokenizer variable extraction: for every line, the atoms tokenize  *)
(* returns are the distinct letters, the '$' mark left out, of the first   *)
(* letter-cluster token of the line; there are none when the line has no   *)
(* letter cluster, and no later letter cluster adds any.                   *)
(***************************************************************************)
\* a character of a letter cluster: a letter or the mark
ClusterChar(c) == c \in Letters \cup { "$" }

\* the positions of the first letter cluster of the text: from the first
\* cluster character up to the next character that is not one
FirstCluster(text) ==
  LET starts == { i \in DOMAIN text : ClusterChar(text[i]) }
  IN  IF starts = {} THEN {}
      ELSE LET first == CHOOSE i \in starts : \A j \in starts : i <= j
           IN  { i \in starts : \A k \in first .. i : k \in starts }

AtomsAreFirstCluster ==
  trial.fn = "tokenize" =>
    /\ trial.atoms = { trial.text[i] : i \in FirstCluster(trial.text) } \ { "$" }
    /\ FirstCluster(trial.text) = {} => trial.atoms = {}

\* a text of two letter clusters, the second with a letter the first lacks
TokenizeWitness ==
  /\ trial.fn = "tokenize"
  /\ Len(trial.tokens) >= 2
  /\ \E i, j \in DOMAIN trial.tokens :
       /\ i < j
       /\ ClusterChar(Head(trial.tokens[i]))
       /\ ClusterChar(Head(trial.tokens[j]))
       /\ \E c \in Range(trial.tokens[j]) : c \in Letters /\ c \notin trial.atoms
  /\ trial.atoms # {}

====
